---- MODULE Spec2Model ----
(***************************************************************************)
(* Blackjack Monte-Carlo engine (wasm-module/src/lib.rs).                  *)
(*                                                                         *)
(* The model follows the Rust source: the boundary adapter                 *)
(* (UserDataStateHolder::to_user_data_state, UserDataState::is_valid), the *)
(* deck (a Vec<Card>), the hand evaluator over u8 sums, the player action  *)
(* executor, the dealer loop, the outcome classifier and the trial loop of *)
(* ActionOutcomes::generate_outcomes, driven by the entry point            *)
(* ActionOutcomes::generate_all_action_outcomes.                           *)
(*                                                                         *)
(* Strings are sequences of one-character strings.  Probabilities and the  *)
(* estimated value are exact fractions <<num, den>> in lowest terms (f64   *)
(* rounding is not modelled).  A panic is the terminal position            *)
(* pc = "panicked" with panic_site naming the expression that panicked.    *)
(* Integer overflow panics when the build checks overflow (debug profile) *)
(* and wraps otherwise (release profile): overflow_checks is fixed at      *)
(* start-up.                                                               *)
(* The win/loss/tie counters are i32 in the source; the trial counts of    *)
(* the model stay far below 2^31, where they would overflow.               *)
(***************************************************************************)
EXTENDS Integers, Sequences, FiniteSets, TLC

VARIABLES
    overflow_checks,  \* build profile: TRUE = overflow panics, FALSE = wraps
    self,             \* the ActionOutcomes object: seven ProbabilityValueOutcomes
    pc,               \* position inside generate_all_action_outcomes
    request,          \* the UserDataStateHolder of the current / last call
    data,             \* the UserDataState to_user_data_state made of it
    action_idx,       \* which of the seven generate_outcomes calls is running
    deck,             \* generate_outcomes: the deck with the known cards removed
    current_deck,     \* the per-trial clone of deck
    player_cards,     \* the per-trial clone of the player's hand
    dealer_cards,     \* the per-trial clone of the dealer's hand
    hits_left,        \* draws handle_player_action still has to make
    wins, losses, ties,
    trial,            \* loop index of `for _ in 0..data.num_sims`
    response,         \* what the last call returned to the caller
    panic_site        \* "none", or the expression that panicked

vars == <<overflow_checks, self, pc, request, data, action_idx, deck, current_deck,
          player_cards, dealer_cards, hits_left, wins, losses, ties, trial,
          response, panic_site>>

(***************************************************************************)
(* Bounds of the model.                                                    *)
(***************************************************************************)
\* getrandom::u64() yields one of the values k * RandomStride, k in 0..MaxRandomIndex
MaxRandomIndex == 1
RandomStride == 34

RandomValues == {k * RandomStride : k \in 0..MaxRandomIndex}

\* a direct call of generate_outcomes runs 1..MaxTrialSims trials
MaxTrialSims == 2

(***************************************************************************)
(* Small arithmetic helpers.                                               *)
(***************************************************************************)
RECURSIVE GCD(_, _)
GCD(a, b) == IF b = 0 THEN a ELSE GCD(b, a % b)

Abs(x) == IF x < 0 THEN -x ELSE x

\* the fraction num/den (den > 0) in lowest terms
Frac(num, den) ==
    LET g == GCD(Abs(num), den)
    IN  <<num \div g, den \div g>>

U8Max == 255

(***************************************************************************)
(* enum Card and Card::get_card_values.                                    *)
(***************************************************************************)
Ranks == <<"Ace", "Two", "Three", "Four", "Five", "Six", "Seven", "Eight",
           "Nine", "Ten", "Jack", "Queen", "King">>

Card == {"Empty"} \cup {Ranks[i] : i \in 1..Len(Ranks)}

get_card_values(card) ==
    CASE card = "Empty" -> <<>>
      [] card = "Ace"   -> <<1, 11>>
      [] card = "Two"   -> <<2>>
      [] card = "Three" -> <<3>>
      [] card = "Four"  -> <<4>>
      [] card = "Five"  -> <<5>>
      [] card = "Six"   -> <<6>>
      [] card = "Seven" -> <<7>>
      [] card = "Eight" -> <<8>>
      [] card = "Nine"  -> <<9>>
      [] card = "Ten"   -> <<10>>
      [] card = "Jack"  -> <<10>>
      [] card = "Queen" -> <<10>>
      [] card = "King"  -> <<10>>

(***************************************************************************)
(* Number parsing (str::parse::<u8>, ::<u32>, ::<f64>) over strings whose  *)
(* characters are digits, "+", "-", "." or a non-numeric character.        *)
(***************************************************************************)
Digits == <<"0", "1", "2", "3", "4", "5", "6", "7", "8", "9">>

IsDigit(c) == \E i \in 1..Len(Digits) : Digits[i] = c

DigitVal(c) == (CHOOSE i \in 1..Len(Digits) : Digits[i] = c) - 1

RECURSIVE DecimalValue(_)
DecimalValue(s) ==
    IF s = <<>> THEN 0
    ELSE 10 * DecimalValue(SubSeq(s, 1, Len(s) - 1)) + DigitVal(s[Len(s)])

RECURSIVE StripZeros(_)
StripZeros(s) == IF s # <<>> /\ s[1] = "0" THEN StripZeros(Tail(s)) ELSE s

\* digit strings without leading zeros: a <= b as numbers
RECURSIVE DigitsLeq(_, _)
DigitsLeq(a, b) ==
    IF Len(a) # Len(b) THEN Len(a) < Len(b)
    ELSE IF a = <<>> THEN TRUE
    ELSE IF a[1] # b[1] THEN DigitVal(a[1]) < DigitVal(b[1])
    ELSE DigitsLeq(Tail(a), Tail(b))

U8MaxDigits == <<"2", "5", "5">>
U32MaxDigits == <<"4", "2", "9", "4", "9", "6", "7", "2", "9", "5">>

\* unsigned integer parse: an optional "+", then one or more digits, the value
\* within the type's range; anything else is a ParseIntError
ParseUnsigned(s, max_digits) ==
    LET body == IF s # <<>> /\ s[1] = "+" THEN Tail(s) ELSE s
    IN  IF /\ body # <<>>
           /\ \A i \in 1..Len(body) : IsDigit(body[i])
           /\ DigitsLeq(StripZeros(body), max_digits)
        THEN [ok |-> TRUE, value |-> DecimalValue(body)]
        ELSE [ok |-> FALSE, value |-> 0]

\* f64 parse of a decimal literal: an optional sign, digits with at most one
\* ".", at least one digit.  The value is sign * mant / 10^scale.
ParseFloat(s) ==
    LET signed == s # <<>> /\ s[1] \in {"+", "-"}
        body   == IF signed THEN Tail(s) ELSE s
        dots   == {i \in 1..Len(body) : body[i] = "."}
        digs   == SelectSeq(body, IsDigit)
    IN  IF /\ \A i \in 1..Len(body) : IsDigit(body[i]) \/ body[i] = "."
           /\ Cardinality(dots) <= 1
           /\ digs # <<>>
        THEN [ok |-> TRUE,
              value |-> [neg   |-> signed /\ s[1] = "-",
                         mant  |-> DecimalValue(digs),
                         scale |-> IF dots = {} THEN 0
                                   ELSE Len(body) - (CHOOSE i \in dots : TRUE)]]
        ELSE [ok |-> FALSE, value |-> [neg |-> FALSE, mant |-> 0, scale |-> 0]]

(***************************************************************************)
(* UserDataStateHolder::to_user_data_state and UserDataState::is_valid.    *)
(***************************************************************************)
NotEmptyCard(card) == card # "Empty"

\* mutant: the Empty placeholders are kept
FilterNothing(cards) == cards

FilterEmpty(cards) == SelectSeq(cards, NotEmptyCard)

NoData == [current_cards |-> <<>>, dealer_card |-> <<>>, num_decks |-> 0,
           bet_size |-> [neg |-> FALSE, mant |-> 0, scale |-> 0], num_sims |-> 0]

to_user_data_state(holder) ==
    LET current_cards == FilterEmpty(holder.current_cards)
        dealer_card   == FilterEmpty(holder.dealer_card)
        num_decks     == ParseUnsigned(holder.num_decks, U8MaxDigits)
        bet_size      == ParseFloat(holder.bet_size)
        num_sims      == ParseUnsigned(holder.num_sims, U32MaxDigits)
    IN  IF ~num_decks.ok THEN [ok |-> FALSE, err |-> "Int", value |-> NoData]
        ELSE IF ~bet_size.ok THEN [ok |-> FALSE, err |-> "Float", value |-> NoData]
        ELSE IF ~num_sims.ok THEN [ok |-> FALSE, err |-> "Int", value |-> NoData]
        ELSE [ok |-> TRUE, err |-> "none",
              value |-> [current_cards |-> current_cards,
                         dealer_card   |-> dealer_card,
                         num_decks     |-> num_decks.value,
                         bet_size      |-> bet_size.value,
                         num_sims      |-> num_sims.value]]

is_valid(state) ==
    /\ Len(state.current_cards) >= 2
    /\ Len(state.dealer_card) = 1
    /\ state.num_decks >= 1
    /\ state.num_sims >= 1

(***************************************************************************)
(* struct Deck.                                                            *)
(***************************************************************************)
\* 4 * num_decks in u8
DeckNewOverflows(num_decks) == 4 * num_decks > U8Max

CopiesPerRank(num_decks) == (4 * num_decks) % (U8Max + 1)

\* Deck::new when it does not panic: each rank repeated CopiesPerRank times, in
\* rank order
DeckNew(num_decks) ==
    LET per == CopiesPerRank(num_decks)
    IN  [i \in 1..(Len(Ranks) * per) |-> Ranks[((i - 1) \div per) + 1]]

\* Vec::swap_remove at the 1-based position i
SwapRemove(s, i) ==
    IF i = Len(s) THEN SubSeq(s, 1, Len(s) - 1)
    ELSE SubSeq(s, 1, i - 1) \o <<s[Len(s)]>> \o SubSeq(s, i + 1, Len(s) - 1)

\* Vec::remove at the 1-based position i
RemoveAt(s, i) == SubSeq(s, 1, i - 1) \o SubSeq(s, i + 1, Len(s))

remove_card_from_deck(cards, card) ==
    IF \E i \in 1..Len(cards) : cards[i] = card
    THEN SwapRemove(cards, CHOOSE i \in 1..Len(cards) :
                               /\ cards[i] = card
                               /\ \A j \in 1..(i - 1) : cards[j] # card)
    ELSE cards

\* known.iter().for_each(|card| deck.remove_card_from_deck(card)) for the cards
\* known[lo + 1 .. hi], in order (the range is halved to keep the evaluation
\* shallow)
RECURSIVE RemoveKnownRange(_, _, _, _)
RemoveKnownRange(cards, known, lo, hi) ==
    IF hi = lo THEN cards
    ELSE IF hi = lo + 1 THEN remove_card_from_deck(cards, known[hi])
    ELSE LET mid == (lo + hi) \div 2
             first_half == RemoveKnownRange(cards, known, lo, mid)
         IN  IF Len(first_half) = 0 THEN first_half
             ELSE RemoveKnownRange(first_half, known, mid, hi)

RemoveKnownCards(cards, known) == RemoveKnownRange(cards, known, 0, Len(known))

\* take_random_card_from_deck: the 1-based position removed.  rnd is
\* [ok |-> TRUE, value |-> v] for Ok(v) and [ok |-> FALSE] for Err(_).
\* Both arms panic on an empty deck (remainder by zero, remove out of bounds).
TakePanics(cards) == Len(cards) = 0

TakeIndex(cards, rnd) ==
    IF rnd.ok THEN (rnd.value % Len(cards)) + 1 ELSE 1

RandomResults == [ok : {TRUE}, value : RandomValues]
                     \cup {[ok |-> FALSE, value |-> 0]}

(***************************************************************************)
(* evaluate_hand / generate_value_combinations (u8 sums).                  *)
(***************************************************************************)
Reverse(s) == [i \in 1..Len(s) |-> s[Len(s) + 1 - i]]

\* one sum for every pair of a left and a right sum, left-major
PairSums(left, right) ==
    [k \in 1..(Len(left) * Len(right)) |->
        left[((k - 1) \div Len(right)) + 1] + right[((k - 1) % Len(right)) + 1]]

\* The exact sums of one value per card for the cards lo + 1 .. hi, in the
\* order the explicit stack produces them: the values of a card are pushed in
\* order and popped last-first, so the last value of the earliest card comes
\* first.  (The range is halved to keep the evaluation shallow.)
RECURSIVE ExactSums(_, _, _)
ExactSums(card_values, lo, hi) ==
    IF hi = lo THEN <<0>>
    ELSE IF hi = lo + 1 THEN Reverse(card_values[hi])
    ELSE LET mid == (lo + hi) \div 2
         IN  PairSums(ExactSums(card_values, lo, mid),
                      ExactSums(card_values, mid, hi))

\* current_sum is a u8 that wraps at every `current_sum + value` (when the
\* build does not check overflow): each result is the exact sum modulo 2^8
generate_value_combinations(card_values) ==
    LET exact == ExactSums(card_values, 0, Len(card_values))
    IN  [i \in 1..Len(exact) |-> exact[i] % (U8Max + 1)]

CardValues(cards) == [i \in 1..Len(cards) |-> get_card_values(cards[i])]

evaluate_hand(cards) == generate_value_combinations(CardValues(cards))

\* some `current_sum + value` exceeds u8: the values are positive, so a partial
\* sum overflows exactly when the complete sum on its path does
EvaluateOverflows(cards) ==
    LET exact == ExactSums(CardValues(cards), 0, Len(cards))
    IN  \E i \in 1..Len(exact) : exact[i] > U8Max

SeqMax(s) == IF s = <<>> THEN -1
             ELSE CHOOSE m \in {s[i] : i \in 1..Len(s)} :
                      \A i \in 1..Len(s) : s[i] <= m

AtMost21(value) == value <= 21

\* Option<u8>: -1 stands for None
BestOption(evaluations) == SeqMax(SelectSeq(evaluations, AtMost21))

\* the loop condition of handle_dealer_action
DealerMustDraw(cards) ==
    LET evaluations == evaluate_hand(cards)
    IN  \A i \in 1..Len(evaluations) : evaluations[i] <= 16

\* mutant: two bust hands tie
evaluate_hands_bust_ties(players_cards, dealers_cards) ==
    LET player_best_option == BestOption(evaluate_hand(players_cards))
        dealer_best_option == BestOption(evaluate_hand(dealers_cards))
    IN  IF player_best_option = -1 /\ dealer_best_option = -1 THEN "TIE"
        ELSE IF player_best_option = -1 THEN "LOSS"
        ELSE IF dealer_best_option = -1 THEN "WIN"
        ELSE IF player_best_option = dealer_best_option THEN "TIE"
        ELSE IF player_best_option > dealer_best_option THEN "WIN"
        ELSE "LOSS"

\* mutant: the dealer's totals are not filtered to <= 21
evaluate_hands_dealer_unfiltered(players_cards, dealers_cards) ==
    LET player_best_option == BestOption(evaluate_hand(players_cards))
        dealer_best_option == SeqMax(evaluate_hand(dealers_cards))
    IN  IF player_best_option = -1 THEN "LOSS"
        ELSE IF dealer_best_option = -1 THEN "WIN"
        ELSE IF player_best_option = dealer_best_option THEN "TIE"
        ELSE IF player_best_option > dealer_best_option THEN "WIN"
        ELSE "LOSS"

evaluate_hands(players_cards, dealers_cards) ==
    LET player_best_option == BestOption(evaluate_hand(players_cards))
        dealer_best_option == BestOption(evaluate_hand(dealers_cards))
    IN  IF player_best_option = -1 THEN "LOSS"
        ELSE IF dealer_best_option = -1 THEN "WIN"
        ELSE IF player_best_option = dealer_best_option THEN "TIE"
        ELSE IF player_best_option > dealer_best_option THEN "WIN"
        ELSE "LOSS"

can_split_hand(hand) == Len(hand) = 2 /\ hand[1] = hand[2]
(***************************************************************************)
(* ProbabilityValueOutcomes and ActionOutcomes.                            *)
(***************************************************************************)
\* ProbabilityValueOutcomes::new
NewProbabilityValueOutcomes ==
    [estimated_value |-> <<0, 1>>, win |-> <<1, 2>>, loss |-> <<1, 2>>,
     tie |-> <<0, 1>>]

Slots == <<"hit_once", "hit_twice", "hit_thrice", "stand",
           "split_hit_once", "split_hit_twice", "split_hit_thrice">>

\* ActionOutcomes::new
NewActionOutcomes == [s \in {Slots[i] : i \in 1..Len(Slots)} |->
                          NewProbabilityValueOutcomes]

\* mutant: clear leaves the slots as they are
ClearNothing(outcomes) == outcomes

\* ActionOutcomes::clear
Clear(outcomes) == NewActionOutcomes

\* the generate_outcomes calls of generate_all_action_outcomes, in call order,
\* each assigned to the slot of the same position in Slots
Actions == <<[kind |-> "HIT", num_hits |-> 1],
             [kind |-> "HIT", num_hits |-> 2],
             [kind |-> "HIT", num_hits |-> 3],
             [kind |-> "STAND", num_hits |-> 0],
             [kind |-> "SPLIT", num_hits |-> 1],
             [kind |-> "SPLIT", num_hits |-> 2],
             [kind |-> "SPLIT", num_hits |-> 3]>>

RECURSIVE Pow10(_)
Pow10(n) == IF n = 0 THEN 1 ELSE 10 * Pow10(n - 1)

\* the record generate_outcomes returns for the given counters
Outcomes(w, l, t, num_sims, bet_size) ==
    LET signed == IF bet_size.neg THEN -bet_size.mant ELSE bet_size.mant
    IN  [estimated_value |-> Frac((w - l) * signed,
                                  num_sims * Pow10(bet_size.scale)),
         win  |-> Frac(w, num_sims),
         loss |-> Frac(l, num_sims),
         tie  |-> Frac(t, num_sims)]

\* Err(Default::default()): the default JsValue
JsDefault == "undefined"

NoResponse == [kind |-> "none", value |-> "none"]
(***************************************************************************)
(* The requests the caller makes.                                          *)
(***************************************************************************)
CurrentCardsInputs ==
    { <<"Empty", "Two">>,
      <<"Eight", "Empty", "Eight">>,
      <<"Ace", "Jack">> }

DealerCardInputs == { <<"Six">>, <<"Empty">> }

NumDecksInputs == { <<"1">>, <<"0">>, <<"x">>, <<"6", "4">> }

BetSizeInputs == { <<"2">>, <<"x">> }

NumSimsInputs == { <<"1">>, <<"0">>, <<"-", "1">> }

Holders == [current_cards : CurrentCardsInputs, dealer_card : DealerCardInputs,
            num_decks : NumDecksInputs, bet_size : BetSizeInputs,
            num_sims : NumSimsInputs]

NoRequest == [current_cards |-> <<>>, dealer_card |-> <<>>, num_decks |-> <<>>,
              bet_size |-> <<>>, num_sims |-> <<>>]

Action == Actions[action_idx]

(***************************************************************************)
(* The state machine.                                                      *)
(***************************************************************************)
Locals == <<action_idx, deck, current_deck, player_cards, dealer_cards,
            hits_left, wins, losses, ties, trial>>

InitLocals ==
    /\ action_idx = 1
    /\ deck = <<>>
    /\ current_deck = <<>>
    /\ player_cards = <<>>
    /\ dealer_cards = <<>>
    /\ hits_left = 0
    /\ wins = 0
    /\ losses = 0
    /\ ties = 0
    /\ trial = 0

ResetLocals ==
    /\ action_idx' = 1
    /\ deck' = <<>>
    /\ current_deck' = <<>>
    /\ player_cards' = <<>>
    /\ dealer_cards' = <<>>
    /\ hits_left' = 0
    /\ wins' = 0
    /\ losses' = 0
    /\ ties' = 0
    /\ trial' = 0

Init ==
    /\ overflow_checks \in BOOLEAN
    /\ self = NewActionOutcomes
    /\ pc = "idle"
    /\ request = NoRequest
    /\ data = NoData
    /\ response = NoResponse
    /\ panic_site = "none"
    /\ InitLocals

Panic(site) ==
    /\ pc' = "panicked"
    /\ panic_site' = site
    /\ UNCHANGED <<overflow_checks, self, request, data, response, Locals>>

\* generate_all_action_outcomes up to its first generate_outcomes call
Call(holder) ==
    /\ pc = "idle"
    /\ request' = holder
    /\ LET parsed == to_user_data_state(holder)
       IN  /\ data' = parsed.value
           /\ IF ~parsed.ok \/ ~is_valid(parsed.value)
              THEN /\ response' = [kind |-> "Err", value |-> JsDefault]
                   /\ pc' = "idle"
              ELSE /\ response' = NoResponse
                   /\ pc' = "generate_outcomes"
    /\ UNCHANGED <<overflow_checks, self, panic_site, Locals>>

\* generate_outcomes: the counters and the deck with the known cards removed
GenerateOutcomesBegin ==
    /\ pc = "generate_outcomes"
    /\ IF DeckNewOverflows(data.num_decks) /\ overflow_checks
       THEN Panic("deck_new_overflow")
       ELSE /\ deck' = RemoveKnownCards(
                           RemoveKnownCards(DeckNew(data.num_decks),
                                            data.current_cards),
                           data.dealer_card)
            /\ wins' = 0
            /\ losses' = 0
            /\ ties' = 0
            /\ trial' = 0
            /\ pc' = "loop"
            /\ UNCHANGED <<overflow_checks, self, request, data, response, panic_site,
                           action_idx, current_deck, player_cards, dealer_cards,
                           hits_left>>

\* one iteration begins: the clones, and handle_player_action up to its first draw
TrialBegin ==
    /\ pc = "loop"
    /\ trial < data.num_sims
    /\ IF Action.kind = "SPLIT" /\ Len(data.current_cards) < 2
       THEN Panic("remove_out_of_bounds")
       ELSE /\ current_deck' = deck
            /\ player_cards' = IF Action.kind = "SPLIT"
                               THEN RemoveAt(data.current_cards, 2)
                               ELSE data.current_cards
            /\ dealer_cards' = data.dealer_card
            /\ hits_left' = Action.num_hits
            /\ pc' = IF Action.num_hits = 0 THEN "dealer" ELSE "player"
            /\ UNCHANGED <<overflow_checks, self, request, data, response, panic_site,
                           action_idx, deck, wins, losses, ties, trial>>

\* handle_player_action: player_cards.push(draw_card())
PlayerDraw(rnd) ==
    /\ pc = "player"
    /\ hits_left > 0
    /\ IF TakePanics(current_deck)
       THEN Panic("take_from_empty_deck")
       ELSE LET i == TakeIndex(current_deck, rnd)
            IN  /\ player_cards' = Append(player_cards, current_deck[i])
                /\ current_deck' = RemoveAt(current_deck, i)
                /\ hits_left' = hits_left - 1
                /\ pc' = IF hits_left = 1 THEN "dealer" ELSE "player"
                /\ UNCHANGED <<overflow_checks, self, request, data, response,
                               panic_site, action_idx, deck, dealer_cards, wins,
                               losses, ties, trial>>

\* mutant: the dealer's card is taken from the deck template, not the clone
DealerPushFromTemplate(i) ==
    /\ dealer_cards' = Append(dealer_cards, deck[i])
    /\ deck' = RemoveAt(deck, i)
    /\ UNCHANGED <<overflow_checks, self, request, data, response, panic_site,
                   pc, action_idx, current_deck, player_cards, hits_left, wins,
                   losses, ties, trial>>

\* dealer_cards.push(draw_card()): the card at position i leaves the clone
DealerPush(i) ==
    /\ dealer_cards' = Append(dealer_cards, current_deck[i])
    /\ current_deck' = RemoveAt(current_deck, i)
    /\ UNCHANGED <<overflow_checks, self, request, data, response, panic_site,
                   pc, action_idx, deck, player_cards, hits_left, wins, losses,
                   ties, trial>>

\* handle_dealer_action: the loop condition holds, dealer_cards.push(draw_card())
DealerDraw(rnd) ==
    /\ pc = "dealer"
    /\ IF EvaluateOverflows(dealer_cards) /\ overflow_checks
       THEN Panic("sum_overflow")
       ELSE /\ DealerMustDraw(dealer_cards)
            /\ IF TakePanics(current_deck)
               THEN Panic("take_from_empty_deck")
               ELSE DealerPush(TakeIndex(current_deck, rnd))

\* handle_dealer_action: the loop condition fails, the dealer stands
DealerStand ==
    /\ pc = "dealer"
    /\ ~(EvaluateOverflows(dealer_cards) /\ overflow_checks)
    /\ ~DealerMustDraw(dealer_cards)
    /\ pc' = "evaluate"
    /\ UNCHANGED <<overflow_checks, self, request, data, response, panic_site, Locals>>

\* mutant: the TIE arm counts nothing
CountedSkipsTie(counter, outcome, arm) ==
    IF outcome = arm /\ arm # "TIE" THEN counter + 1 ELSE counter

\* one arm of `match outcome`: the counter of that arm after the match
Counted(counter, outcome, arm) == IF outcome = arm THEN counter + 1 ELSE counter

\* evaluate_hands and the match that counts the outcome
Tally ==
    /\ pc = "evaluate"
    /\ IF overflow_checks /\ (EvaluateOverflows(player_cards)
                                  \/ EvaluateOverflows(dealer_cards))
       THEN Panic("sum_overflow")
       ELSE /\ LET outcome == evaluate_hands(player_cards, dealer_cards)
               IN  /\ wins' = Counted(wins, outcome, "WIN")
                   /\ losses' = Counted(losses, outcome, "LOSS")
                   /\ ties' = Counted(ties, outcome, "TIE")
            /\ trial' = trial + 1
            /\ pc' = "loop"
            /\ UNCHANGED <<overflow_checks, self, request, data, response,
                           panic_site, action_idx, deck, current_deck,
                           player_cards, dealer_cards, hits_left>>

\* the calls generate_all_action_outcomes makes: the four unconditional ones,
\* then the three split ones when can_split_hand holds
LastAction == IF can_split_hand(data.current_cards) THEN 7 ELSE 4

\* generate_outcomes returns and its result is assigned to the slot
GenerateOutcomesEnd ==
    /\ pc = "loop"
    /\ trial = data.num_sims
    /\ self' = [self EXCEPT ![Slots[action_idx]] =
                    Outcomes(wins, losses, ties, data.num_sims, data.bet_size)]
    /\ IF action_idx < LastAction
       THEN /\ action_idx' = action_idx + 1
            /\ pc' = "generate_outcomes"
       ELSE /\ action_idx' = action_idx
            /\ pc' = "respond"
    /\ UNCHANGED <<overflow_checks, request, data, response, panic_site, deck,
                   current_deck, player_cards, dealer_cards, hits_left, wins,
                   losses, ties, trial>>

\* the report is serialised, the object cleared, the response returned
Respond ==
    /\ pc = "respond"
    /\ response' = [kind |-> "Ok", value |-> self]
    /\ self' = Clear(self)
    /\ pc' = "idle"
    /\ ResetLocals
    /\ UNCHANGED <<overflow_checks, request, data, panic_site>>

Next ==
    \/ \E holder \in Holders : Call(holder)
    \/ GenerateOutcomesBegin
    \/ TrialBegin
    \/ \E rnd \in RandomResults : PlayerDraw(rnd)
    \/ \E rnd \in RandomResults : DealerDraw(rnd)
    \/ DealerStand
    \/ Tally
    \/ GenerateOutcomesEnd
    \/ Respond

Spec == Init /\ [][Next]_vars
(***************************************************************************)
(* generate_outcomes called directly (as the unit tests call it) on a      *)
(* valid UserDataState, for one of the actions the entry point would run.  *)
(***************************************************************************)
\* one deck without three of its Twos: as a player's hand it leaves at most
\* three cards in the deck
NearlyWholeDeck == RemoveKnownCards(DeckNew(1), <<"Two", "Two", "Two">>)

\* cards of one deck whose values sum to 276: a Six, the Sevens, Eights and
\* Nines, the sixteen cards worth ten, two Fives and a Four
HandPastU8 == SubSeq(DeckNew(1), 24, 52) \o <<"Five", "Five", "Four">>

TrialHands == { <<"Ace", "Jack">>, <<"Eight", "Eight">>, <<"Ten", "Six">>,
                NearlyWholeDeck, HandPastU8 }

TrialStates ==
    [current_cards : TrialHands,
     dealer_card   : {<<Ranks[i]>> : i \in 1..Len(Ranks)},
     num_decks     : {1},
     bet_size      : {[neg |-> FALSE, mant |-> 2, scale |-> 0]},
     num_sims      : 1..MaxTrialSims]

InitTrial ==
    /\ overflow_checks \in BOOLEAN
    /\ self = NewActionOutcomes
    /\ request = NoRequest
    /\ data \in {d \in TrialStates : is_valid(d)}
    /\ action_idx \in 1..Len(Actions)
    /\ Actions[action_idx].kind = "SPLIT" => can_split_hand(data.current_cards)
    /\ pc = "generate_outcomes"
    /\ response = NoResponse
    /\ panic_site = "none"
    /\ deck = <<>>
    /\ current_deck = <<>>
    /\ player_cards = <<>>
    /\ dealer_cards = <<>>
    /\ hits_left = 0
    /\ wins = 0
    /\ losses = 0
    /\ ties = 0
    /\ trial = 0

\* generate_outcomes returns its ProbabilityValueOutcomes to the caller
TrialReturn ==
    /\ pc = "loop"
    /\ trial = data.num_sims
    /\ response' = [kind |-> "Outcomes",
                    value |-> Outcomes(wins, losses, ties, data.num_sims,
                                       data.bet_size)]
    /\ pc' = "returned"
    /\ UNCHANGED <<overflow_checks, self, request, data, panic_site, Locals>>

NextTrial ==
    \/ GenerateOutcomesBegin
    \/ TrialBegin
    \/ \E rnd \in RandomResults : PlayerDraw(rnd)
    \/ \E rnd \in RandomResults : DealerDraw(rnd)
    \/ DealerStand
    \/ Tally
    \/ TrialReturn

SpecTrial == InitTrial /\ [][NextTrial]_vars

(***************************************************************************)
(* Deck::new called alone, for every number of decks a u8 can hold.        *)
(***************************************************************************)
InitDeck ==
    /\ overflow_checks \in BOOLEAN
    /\ self = NewActionOutcomes
    /\ request = NoRequest
    /\ data \in [current_cards : {<<>>}, dealer_card : {<<>>},
                 num_decks : 1..U8Max,
                 bet_size : {[neg |-> FALSE, mant |-> 0, scale |-> 0]},
                 num_sims : {0}]
    /\ pc = "deck_new"
    /\ response = NoResponse
    /\ panic_site = "none"
    /\ InitLocals

DeckNewCall ==
    /\ pc = "deck_new"
    /\ IF DeckNewOverflows(data.num_decks) /\ overflow_checks
       THEN Panic("deck_new_overflow")
       ELSE /\ deck' = DeckNew(data.num_decks)
            /\ pc' = "deck_built"
            /\ UNCHANGED <<overflow_checks, self, request, data, response,
                           panic_site, action_idx, current_deck, player_cards,
                           dealer_cards, hits_left, wins, losses, ties, trial>>

NextDeck == DeckNewCall

SpecDeck == InitDeck /\ [][NextDeck]_vars
(***************************************************************************)
(* Properties.                                                             *)
(***************************************************************************)
\* the largest achievable total, not capped at 21
MaxTotal(cards) == SeqMax(evaluate_hand(cards))

\* the best total used by the classifier; -1 when the hand is bust
BestTotal(cards) == BestOption(evaluate_hand(cards))

Bust(cards) == BestTotal(cards) = -1

\* the dealer's position when a draw panicked inside handle_dealer_action
\* after at least one successful dealer draw
DealerRanOutOfCards ==
    /\ pc = "panicked"
    /\ panic_site = "take_from_empty_deck"
    /\ hits_left = 0
    /\ Len(dealer_cards) > Len(data.dealer_card)

\* C1: for every valid game state and action the simulation completes its
\* trials; a draw from an exhausted per-trial deck never fails or panics.
C1_ExhaustedDrawNeverFails ==
    is_valid(data) => panic_site # "take_from_empty_deck"

\* C2: from a single up-card and a non-empty per-trial deck the dealer policy
\* stops after finitely many draws, with a maximum achievable total (not
\* capped at 21) of at least 17; it does not end any other way.
C2_DealerStopsAt17 ==
    /\ pc = "evaluate" => MaxTotal(dealer_cards) >= 17
    /\ ~DealerRanOutOfCards

\* C3: when the dealer has stopped drawing, the dealer's hand is bust or its
\* best total (the maximum achievable total <= 21) is at least 17.
C3_DealerStandsOn17OrMore ==
    pc = "evaluate" => (Bust(dealer_cards) \/ BestTotal(dealer_cards) >= 17)

FracSum(a, b, c) ==
    Frac(a[1] * b[2] * c[2] + b[1] * a[2] * c[2] + c[1] * a[2] * b[2],
         a[2] * b[2] * c[2])

Classified(player_best, dealer_best) ==
    CASE player_best = -1 -> "LOSS"
      [] player_best # -1 /\ dealer_best = -1 -> "WIN"
      [] player_best # -1 /\ dealer_best # -1 /\ player_best = dealer_best -> "TIE"
      [] player_best # -1 /\ dealer_best # -1 /\ player_best > dealer_best -> "WIN"
      [] player_best # -1 /\ dealer_best # -1 /\ player_best < dealer_best -> "LOSS"

TallyOf(outcome) ==
    <<IF outcome = "WIN" THEN 1 ELSE 0, IF outcome = "LOSS" THEN 1 ELSE 0,
      IF outcome = "TIE" THEN 1 ELSE 0>>

SplitSlots == {"split_hit_once", "split_hit_twice", "split_hit_thrice"}

\* a slot holds what generate_outcomes returns for some counters of n trials
ComputedFor(slot, n, bet_size) ==
    \E w \in 0..n : \E l \in 0..(n - w) :
        slot = Outcomes(w, l, n - w - l, n, bet_size)

\* C6: whatever calls were made before on the same object (calls that
\* returned an error and calls with split-eligible hands included), a report
\* returned for a hand that is not split-eligible has its three split slots at
\* the neutral default and its stand and hit slots computed; between calls the
\* object holds nothing of the earlier requests.
C6_SplitSlotsNeutral ==
    /\ pc = "idle" => self = NewActionOutcomes
    /\ (pc = "idle" /\ response.kind = "Ok" /\ ~can_split_hand(data.current_cards))
           => /\ \A s \in SplitSlots :
                      response.value[s] = NewProbabilityValueOutcomes
              /\ \A s \in {"stand", "hit_once", "hit_twice", "hit_thrice"} :
                      ComputedFor(response.value[s], data.num_sims, data.bet_size)

C6_Witness ==
    /\ pc = "idle"
    /\ response.kind = "Ok"
    /\ ~can_split_hand(data.current_cards)
    /\ response.value["stand"] # NewProbabilityValueOutcomes

Malformed(holder) == ~to_user_data_state(holder).ok

\* C7: the error returned for an invalid game state differs from the error
\* returned for a malformed numeric field.
C7_ErrorKindsDistinguishable ==
    [][(/\ pc = "idle" /\ response.kind = "Err" /\ Malformed(request)
        /\ pc' = "idle" /\ response'.kind = "Err" /\ ~Malformed(request'))
           => response' # response]_vars

NonEmptyCount(cards) == Cardinality({i \in 1..Len(cards) : cards[i] # "Empty"})

\* the request violates a domain invariant once the Empty cards are left out
InvalidAfterFiltering(holder) ==
    \/ NonEmptyCount(holder.current_cards) < 2
    \/ NonEmptyCount(holder.dealer_card) # 1
    \/ ParseUnsigned(holder.num_decks, U8MaxDigits) = [ok |-> TRUE, value |-> 0]
    \/ ParseUnsigned(holder.num_sims, U32MaxDigits) = [ok |-> TRUE, value |-> 0]

\* C8: Empty cards are filtered out before the domain invariants are checked:
\* a request that violates them after filtering returns an error, runs no
\* trial and changes no slot of the report.
C8_InvalidRequestRejected ==
    [][(pc = "idle" /\ InvalidAfterFiltering(request'))
           => /\ pc' = "idle"
              /\ response'.kind = "Err"
              /\ self' = self
              /\ UNCHANGED Locals]_vars

C8_Witness ==
    /\ pc = "idle"
    /\ response.kind = "Err"
    /\ request.current_cards = <<"Empty", "Two">>
    /\ request.dealer_card = <<"Six">>
    /\ ~Malformed(request)
    /\ data.num_decks = 1
    /\ data.num_sims = 1

\* C9: when the player's hand has best total 21 and the action is Stand, no
\* trial is a Loss: the loss count and the loss probability are 0.
C9_StandOn21NeverLoses ==
    (Action.kind = "STAND" /\ BestTotal(data.current_cards) = 21)
        => /\ losses = 0
           /\ pc = "returned" => response.value.loss = <<0, 1>>

C9_Witness ==
    /\ pc = "returned"
    /\ Action.kind = "STAND"
    /\ BestTotal(data.current_cards) = 21
    /\ wins = 1
    /\ ties = 1

\* the maximum over the exact integer sums of one admissible value per card
\* that is <= 21; -1 when no such sum is <= 21
ExactBest(cards) ==
    SeqMax(SelectSeq(ExactSums(CardValues(cards), 0, Len(cards)), AtMost21))

\* C11: for every hand after the player action, whatever its length and the
\* sum of its card values, the best total used for classification is the
\* maximum exact sum that is <= 21, and bust when there is none; the u8
\* accumulation neither changes it nor fails.
C11_U8SumsExact ==
    /\ panic_site # "sum_overflow"
    /\ pc \in {"dealer", "evaluate"}
           => BestTotal(player_cards) = ExactBest(player_cards)
    /\ pc = "evaluate" => BestTotal(dealer_cards) = ExactBest(dealer_cards)

\* the player's hand a trial starts from: the known cards, without the card at
\* index 1 for a split
StartingHand ==
    IF Action.kind = "SPLIT" THEN RemoveAt(data.current_cards, 2)
    ELSE data.current_cards

\* hand' is hand with one card pushed, and that card left the per-trial deck
DrawnFromClone(hand, hand_after) ==
    \E i \in 1..Len(current_deck) :
        /\ hand_after = Append(hand, current_deck[i])
        /\ current_deck' = RemoveAt(current_deck, i)

C12_Step ==
    /\ pc # "generate_outcomes" => deck' = deck
    /\ (pc = "loop" /\ pc' \in {"player", "dealer"})
           => /\ current_deck' = deck
              /\ player_cards' = StartingHand
              /\ dealer_cards' = data.dealer_card
    /\ (pc = "player" /\ pc' # "panicked")
           => /\ dealer_cards = data.dealer_card
              /\ dealer_cards' = dealer_cards
              /\ DrawnFromClone(player_cards, player_cards')
    /\ pc \in {"dealer", "evaluate"}
           => /\ Len(player_cards) = Len(StartingHand) + Action.num_hits
              /\ player_cards' = player_cards
    /\ (pc = "dealer" /\ pc' = "dealer")
           => DrawnFromClone(dealer_cards, dealer_cards')
    /\ pc = "evaluate" => current_deck' = current_deck /\ dealer_cards' = dealer_cards

\* C12: within every trial all the player's draws (0 for Stand, n for Hit(n),
\* n for Split(n) after the card at index 1 is removed) come before the
\* dealer's first draw, both draw from the same per-trial clone of the deck
\* template, and the template is not changed by a trial, so every trial of an
\* action starts from the same deck.
C12_PlayerDrawsFirstFromClone == [][C12_Step]_vars

C12_Witness ==
    /\ pc = "evaluate"
    /\ trial = 1
    /\ Action.kind = "SPLIT"
    /\ Action.num_hits = 2
    /\ Len(player_cards) = 3
    /\ Len(dealer_cards) > 1
    /\ Len(current_deck) = Len(deck) - 2 - (Len(dealer_cards) - 1)
    /\ deck = RemoveKnownCards(RemoveKnownCards(DeckNew(data.num_decks),
                                                data.current_cards),
                               data.dealer_card)

CountOf(cards, card) == Cardinality({i \in 1..Len(cards) : cards[i] = card})

\* C10: for every number of decks from 1 to 255, Deck::new builds exactly
\* 4 x numDecks cards of each of the 13 ranks and no Empty card, the product
\* computed without 8-bit overflow.
C10_DeckNewCounts ==
    /\ panic_site # "deck_new_overflow"
    /\ pc = "deck_built"
           => /\ \A i \in 1..Len(Ranks) :
                      CountOf(deck, Ranks[i]) = 4 * data.num_decks
              /\ Len(deck) = 52 * data.num_decks
              /\ CountOf(deck, "Empty") = 0
====
